---- MODULE Spec2Model ----
(***************************************************************************)
(* Model of src/montecarlo.py: the Monte Carlo search for the scaling      *)
(* regime (xmin, xmax, alpha) of a power law, find_pl_montecarlo, with     *)
(* its helpers expfun, find_true_p and find_p_core.                        *)
(*                                                                         *)
(* Floats are fixed-point integers: probabilities, distances and alphas    *)
(* in units of 1/Scale, data values in units of 1/Unit.  Array indices     *)
(* are 1-based here and 0-based in the source; every index difference and  *)
(* every length is the same in both.                                       *)
(*                                                                         *)
(* The collaborators imported from .distances, .brent and .likelihoods     *)
(* are not part of the source file.  A call to one of them is a choice     *)
(* among the values it may return; a deterministic collaborator returns    *)
(* the same value when called again on the same window (oracle).           *)
(***************************************************************************)
EXTENDS Integers, Sequences, FiniteSets

(* ------------------------------ units ---------------------------------- *)

\* One unit of a float (p values, distances, alphas): 1.0 is Scale.
Scale == 1000

\* One unit of a data value: the datum 1 is Unit, so 0.5 is representable.
Unit == 2

(* ------------------------------ bounds --------------------------------- *)

\* runs: the number of trials of one call.
Runs == 2

\* pruns: the synthetic samples per candidate of the true-p estimate.
PRuns == 2

(* ------------------------- program constants --------------------------- *)

\* expfun's default numterms.
NumTerms == 10

\* The while loop keeps drawing while xmax_idx - xmin_idx < MinIdxGap.
MinIdxGap == 10

\* The while loop keeps drawing while xmax < RatioMin * xmin.
RatioMin == 2

\* attempted_ds starts at 1e12; TLC's integers are 32 bits wide, so the
\* model holds the largest round value that fits, above every distance.
DsSentinel == 2000000000

(* ------------------------------ inputs --------------------------------- *)

\* Ten points 1..10: max/min = 10.
DataTen == [k \in 1..10 |-> k * Unit]

\* Twelve points 1,...,10,12,24: the windows (1,12) and (2,24) tie at ratio 12.
DataTie == [k \in 1..12 |-> IF k <= 10 THEN k * Unit ELSE IF k = 11 THEN 12 * Unit ELSE 24 * Unit]

\* Twelve points 10..21: the window (11,21) is 11 points wide with 21 < 2*11.
DataNarrow == [k \in 1..12 |-> (9 + k) * Unit]

\* Eleven points 5.5, 5.0, ..., 0.5, handed over unsorted; 0.5 < 1.
DataFrac == [k \in 1..11 |-> 12 - k]

DataSets == {DataTen, DataTie, DataNarrow, DataFrac}

DistTypes == {"KS", "AD", "discrete", "XYZ"}

PqCrits == {350}

PCrits == {250, 600}

\* Values brent_findmin may return (1.0 and 2.5).
AlphaVals == {Scale, 2500}

\* Values a KS distance function may return (0.25, 0.3).
DVals == {250, 300}

\* Values find_ad_sorted may return (2.0).
ADVals == {2000}

VARIABLES
    data,            \* the sample (sorted from Validate on)
    dist_type, calc_p, pqcrit, pcrit_arg,   \* the caller's arguments
    pcrit,           \* the local pcrit (line 161 may overwrite it)
    pc,              \* position in find_pl_montecarlo
    i,               \* trials recorded so far (the loop index of line 198)
    attempted_xmins, attempted_xmaxs, attempted_alphas,
    attempted_ns, attempted_pqs, attempted_ds,
    oracle,          \* what the collaborators returned, per window
    possible_ps,     \* find_p_core's result (or possible_pqs), line 259-263
    refined,         \* find_p_core was called
    result,          \* the returned (xmin, xmax, alpha)
    ks_pqs, ks_result, \* the same call, same draws, run with dist_type = 'KS'
    stream,          \* the synthetic samples drawn so far, in drawing order
    wtot, wleft      \* per candidate: tot, and the runs find_true_p has left

vars == <<data, dist_type, calc_p, pqcrit, pcrit_arg, pcrit, pc, i,
          attempted_xmins, attempted_xmaxs, attempted_alphas,
          attempted_ns, attempted_pqs, attempted_ds, oracle,
          possible_ps, refined, result, ks_pqs, ks_result,
          stream, wtot, wleft>>

(* --------------------------- arithmetic -------------------------------- *)

\* The integer square root of m, known to lie in lo..hi.
ISqrt(m, lo, hi) == CHOOSE k \in lo..hi : k * k <= m /\ m < (k + 1) * (k + 1)

\* np.sqrt(n) for an integer n >= 0, in units of 1/Scale: the integer part,
\* then one decimal digit after the other (Scale is 10^3).
SqrtOfInt(n) ==
    LET r == ISqrt(n, 0, n)
        a == ISqrt(n * 100, 10 * r, 10 * r + 9)
        b == ISqrt(n * 10000, 10 * a, 10 * a + 9)
    IN  ISqrt(n * Scale * Scale, 10 * b, 10 * b + 9)

RECURSIVE ExpSeries(_, _, _, _)
\* exp(y) = sum y^k/k!, the terms from the k-th on added to acc.
ExpSeries(y, k, term, acc) ==
    LET t == (term * y) \div (k * Scale)
    IN  IF t = 0 THEN acc ELSE ExpSeries(y, k + 1, t, acc + t)

\* np.exp(-y) for y >= 0, rounded to 1/Scale (0 from y = 7 on, where
\* exp(-y) < 1/Scale).
ExpNeg(y) ==
    IF y >= 7 * Scale THEN 0
    ELSE LET e == ExpSeries(y, 1, Scale, Scale)
         IN  (2 * Scale * Scale + e) \div (2 * e)

RECURSIVE ExpfunSum(_, _, _)
ExpfunSum(x2, k, numterms) ==
    IF k > numterms THEN 0
    ELSE (IF k % 2 = 1 THEN 1 ELSE -1) * ExpNeg(2 * k * k * x2)
         + ExpfunSum(x2, k + 1, numterms)

\* expfun(x, numterms): 2 * sum_{i=1..numterms} (-1)^(i-1) exp(-2 i^2 x^2).
expfun(x, numterms) == 2 * ExpfunSum((x * x) \div Scale, 1, numterms)

(* ------------------------- array operations ---------------------------- *)

\* np.sort(s): the k-th entry is the value with fewer than k entries of s
\* below it and at least k entries not above it.
Sort(s) ==
    [k \in 1..Len(s) |->
        CHOOSE v \in {s[j] : j \in 1..Len(s)} :
            /\ Cardinality({j \in 1..Len(s) : s[j] < v}) < k
            /\ k <= Cardinality({j \in 1..Len(s) : s[j] <= v})]

\* np.ones(n) * v
Filled(n, v) == [k \in 1..n |-> v]

RECURSIVE WhereFrom(_, _, _)
WhereFrom(arr, crit, k) ==
    IF k > Len(arr) THEN <<>>
    ELSE (IF arr[k] > crit THEN <<k>> ELSE <<>>) \o WhereFrom(arr, crit, k + 1)

\* np.where(arr > crit)[0]: the indices of the entries above crit, ascending.
WhereAbove(arr, crit) == WhereFrom(arr, crit, 1)

\* Mutant of Take: the survivors' indices are ignored, the arrays cut to
\* their first entries.
TakePrefix(arr, idxs) == [j \in 1..Len(idxs) |-> arr[j]]

\* arr[idxs]
Take(arr, idxs) == [j \in 1..Len(idxs) |-> arr[idxs[j]]]

RECURSIVE ArgMaxLastScan(_, _, _)
ArgMaxLastScan(arr, k, best) ==
    IF k > Len(arr) THEN best
    ELSE ArgMaxLastScan(arr, k + 1, IF arr[k] >= arr[best] THEN k ELSE best)

\* Mutant of ArgMax: the last index of the largest entry.
ArgMaxLast(arr) == ArgMaxLastScan(arr, 2, 1)

RECURSIVE ArgMaxScan(_, _, _)
ArgMaxScan(arr, k, best) ==
    IF k > Len(arr) THEN best
    ELSE ArgMaxScan(arr, k + 1, IF arr[k] > arr[best] THEN k ELSE best)

\* np.argmax(arr): the first index of the largest entry.
ArgMax(arr) == ArgMaxScan(arr, 2, 1)

RECURSIVE ArgMaxRatioLastScan(_, _, _, _)
ArgMaxRatioLastScan(xmaxs, xmins, k, best) ==
    IF k > Len(xmaxs) THEN best
    ELSE ArgMaxRatioLastScan(xmaxs, xmins, k + 1,
             IF xmaxs[k] * xmins[best] >= xmaxs[best] * xmins[k] THEN k ELSE best)

\* Mutant of ArgMaxRatio: the last index of the largest ratio.
ArgMaxRatioLast(xmaxs, xmins) == ArgMaxRatioLastScan(xmaxs, xmins, 2, 1)

RECURSIVE ArgMaxRatioScan(_, _, _, _)
\* xmaxs[k]/xmins[k] > xmaxs[best]/xmins[best], the data being positive.
ArgMaxRatioScan(xmaxs, xmins, k, best) ==
    IF k > Len(xmaxs) THEN best
    ELSE ArgMaxRatioScan(xmaxs, xmins, k + 1,
             IF xmaxs[k] * xmins[best] > xmaxs[best] * xmins[k] THEN k ELSE best)

\* np.argmax(xmaxs/xmins)
ArgMaxRatio(xmaxs, xmins) == ArgMaxRatioScan(xmaxs, xmins, 2, 1)

(* ------------------------ find_pl_montecarlo --------------------------- *)

\* Mutant of Dispatch: 'AD' selects find_ad_sorted for dfun as well.
DispatchADBoth(dt) ==
    LET ks == [distfun |-> "find_d_sorted", dfun |-> "find_d_sorted",
               brent |-> "brent_findmin",
               nearest_first |-> "find_nearest_idx",
               nearest_last |-> "find_nearest_idx"]
    IN  CASE dt = "AD" -> [ks EXCEPT !.distfun = "find_ad_sorted",
                                     !.dfun = "find_ad_sorted"]
          [] dt = "discrete" ->
                [distfun |-> "find_d_sorted_discrete",
                 dfun |-> "find_d_sorted_discrete",
                 brent |-> "brent_findmin_discrete",
                 nearest_first |-> "find_nearest_idx_discrete_1",
                 nearest_last |-> "find_nearest_idx_discrete_0"]
          [] OTHER -> ks

\* Lines 153-176: the functions dist_type selects.
Dispatch(dt) ==
    LET ks == [distfun |-> "find_d_sorted", dfun |-> "find_d_sorted",
               brent |-> "brent_findmin",
               nearest_first |-> "find_nearest_idx",
               nearest_last |-> "find_nearest_idx"]
    IN  CASE dt = "AD" -> [ks EXCEPT !.distfun = "find_ad_sorted"]
          [] dt = "discrete" ->
                [distfun |-> "find_d_sorted_discrete",
                 dfun |-> "find_d_sorted_discrete",
                 brent |-> "brent_findmin_discrete",
                 nearest_first |-> "find_nearest_idx_discrete_1",
                 nearest_last |-> "find_nearest_idx_discrete_0"]
          [] OTHER -> ks

\* Mutant of ReturnsDefaults: the data < 1 guard of 'discrete' is missing.
ReturnsDefaultsNoGuard(dt, d) == dt \notin {"KS", "AD", "discrete"}

\* Lines 163-182: the inputs for which the function returns defaults.
ReturnsDefaults(dt, d) ==
    \/ dt \notin {"KS", "AD", "discrete"}
    \/ dt = "discrete" /\ \E k \in 1..Len(d) : d[k] < Unit

\* Line 159: defaults = [0,0,1]
Defaults == <<0, 0, Scale>>

\* Mutant of LocalPcrit: pcrit is not overwritten when calc_p is False.
LocalPcritKept(calc, pq_crit, p_crit) == p_crit

\* Lines 160-161: pcrit as the filters use it.
LocalPcrit(calc, pq_crit, p_crit) == IF calc = FALSE THEN pq_crit ELSE p_crit

\* Mutant of KeepsDrawing: 'and' for 'or'.
KeepsDrawingBoth(d, xmin_idx, xmax_idx) ==
    /\ xmax_idx - xmin_idx < MinIdxGap
    /\ d[xmax_idx] < RatioMin * d[xmin_idx]

\* Line 208: the while condition, on the snapped indices of one draw.
KeepsDrawing(d, xmin_idx, xmax_idx) ==
    \/ xmax_idx - xmin_idx < MinIdxGap
    \/ d[xmax_idx] < RatioMin * d[xmin_idx]

\* Mutant of ScaledTmpd: the distance is computed whatever alpha_hat is.
ScaledTmpdUnguarded(alpha_hat, dval, n) == (dval * SqrtOfInt(n)) \div Scale

\* Lines 217-220, 230: tmpd*np.sqrt(n), tmpd being dfun's value when
\* alpha_hat > 1 and the default 1 otherwise.
ScaledTmpd(alpha_hat, dval, n) ==
    LET tmpd == IF alpha_hat > Scale THEN dval ELSE Scale
    IN  (tmpd * SqrtOfInt(n)) \div Scale

\* Line 231: expfun(tmpd + 0.17/np.sqrt(n) + (tmpd - 1)/(4*n))
ApproxP(tmpd, n) ==
    expfun(tmpd + (170 * Scale) \div SqrtOfInt(n) + (tmpd - Scale) \div (4 * n),
           NumTerms)

\* Lines 218-219: attempted_ds[i] is written only when alpha_hat > 1.
RecordedD(alpha_hat, dval, old) == IF alpha_hat > Scale THEN dval ELSE old

(* --------------------- find_true_p, find_p_core ------------------------ *)

\* Lines 66-69: p and sigp from tot, the number of the runs synthetic samples
\* whose distance ds was >= de.
find_true_p(tot, runs) ==
    LET p == (tot * Scale) \div runs
    IN  <<p, ISqrt((p * (Scale - p)) \div runs, 0, Scale)>>

\* Lines 74-83: one find_true_p per candidate, its p kept.
find_p_core(tots, pruns) == [j \in 1..Len(tots) |-> find_true_p(tots[j], pruns)[1]]

\* Lines 238-295: the filters and the selection, on the finished batch.
\* tots[j] is, for the j-th candidate, the number of its synthetic samples
\* with ds >= de (read only when find_p_core is called).
Select(xmins, xmaxs, alphas, pqs, pq_crit, p_crit, calc, tots, pruns) ==
    LET idxs == WhereAbove(pqs, pq_crit)
        possible_xmins == Take(xmins, idxs)
        possible_xmaxs == Take(xmaxs, idxs)
        possible_alphas == Take(alphas, idxs)
        possible_pqs == Take(pqs, idxs)
        ps == IF calc = TRUE THEN find_p_core(Take(tots, idxs), pruns)
              ELSE possible_pqs
        idxs2 == WhereAbove(ps, p_crit)
        possible_xmins2 == Take(possible_xmins, idxs2)
        possible_xmaxs2 == Take(possible_xmaxs, idxs2)
        possible_alphas2 == Take(possible_alphas, idxs2)
    IN  IF Len(idxs) = 0
        THEN LET minidx == ArgMax(pqs)
             IN  [ret |-> "ret_empty_approx", ps |-> <<>>, called |-> FALSE,
                  result |-> <<xmins[minidx], xmaxs[minidx], alphas[minidx]>>]
        ELSE IF Len(idxs2) = 0
        THEN LET minidx == ArgMax(ps)
             IN  [ret |-> "ret_empty_true", ps |-> ps, called |-> (calc = TRUE),
                  result |-> <<possible_xmins[minidx], possible_xmaxs[minidx],
                               possible_alphas[minidx]>>]
        ELSE LET minidx == ArgMaxRatio(possible_xmaxs2, possible_xmins2)
             IN  [ret |-> "ret_select", ps |-> ps, called |-> (calc = TRUE),
                  result |-> <<possible_xmins2[minidx], possible_xmaxs2[minidx],
                               possible_alphas2[minidx]>>]

(* --------------------------- collaborators ----------------------------- *)

\* The lookups snap a drawn value to an index of data: any index,
\* np.random.rand() being uniform over the whole range of the data.
NearestIdx(d) == 1..Len(d)

\* The distance functions one call may use: its own, and those of the
\* dist_type = 'KS' run it is compared with.
DistFuns(dt) ==
    {Dispatch(dt).distfun, Dispatch(dt).dfun}
        \cup (IF dt = "AD" THEN {Dispatch("KS").dfun} ELSE {})

DistVals(f) == IF f = "find_ad_sorted" THEN ADVals ELSE DVals

\* The smallest element of a set of numbers.
Least(S) == CHOOSE v \in S : \A u \in S : v <= u

\* What brent and the distance functions return on a window: alpha, and a
\* distance per function.  With alpha <= 1 the source calls no distance
\* function; the distances of such a fit are those a call would return,
\* one value each.
Fits(dt) ==
    {[alpha |-> al, dist |-> dv] :
        al \in {a \in AlphaVals : a > Scale},
        dv \in {f \in [DistFuns(dt) -> DVals \cup ADVals] :
                  \A g \in DistFuns(dt) : f[g] \in DistVals(g)}}
    \cup {[alpha |-> al, dist |-> [g \in DistFuns(dt) |-> Least(DistVals(g))]] :
            al \in {a \in AlphaVals : a <= Scale}}

\* The collaborators are deterministic: a window seen before fits as before.
Answers(w) == IF w \in DOMAIN oracle THEN {oracle[w]} ELSE Fits(dist_type)

(* ------------------------------ actions -------------------------------- *)

Init ==
    /\ data \in DataSets
    /\ dist_type \in DistTypes
    /\ calc_p \in BOOLEAN
    /\ pqcrit \in PqCrits
    /\ pcrit_arg \in PCrits
    /\ pcrit = pcrit_arg
    /\ pc = "start"
    /\ i = 0
    /\ attempted_xmins = <<>> /\ attempted_xmaxs = <<>>
    /\ attempted_alphas = <<>> /\ attempted_ns = <<>>
    /\ attempted_pqs = <<>> /\ attempted_ds = <<>>
    /\ oracle = [w \in {} |-> 0]
    /\ possible_ps = <<>>
    /\ refined = FALSE
    /\ result = <<>>
    /\ ks_pqs = <<>> /\ ks_result = <<>>
    /\ stream = <<>> /\ wtot = <<>> /\ wleft = <<>>

\* Lines 152-197: sort, choose the functions, validate, allocate the batch.
Validate ==
    /\ pc = "start"
    /\ data' = Sort(data)
    /\ pcrit' = LocalPcrit(calc_p, pqcrit, pcrit_arg)
    /\ IF ReturnsDefaults(dist_type, Sort(data))
       THEN /\ pc' = "ret_defaults"
            /\ result' = Defaults
            /\ UNCHANGED <<attempted_xmins, attempted_xmaxs, attempted_alphas,
                           attempted_ns, attempted_pqs, attempted_ds, ks_pqs>>
       ELSE /\ pc' = "sweep"
            /\ attempted_xmins' = Filled(Runs, Unit)
            /\ attempted_xmaxs' = Filled(Runs, Unit)
            /\ attempted_alphas' = Filled(Runs, Scale)
            /\ attempted_ns' = Filled(Runs, 1)
            /\ attempted_pqs' = Filled(Runs, Scale)
            /\ attempted_ds' = Filled(Runs, DsSentinel)
            /\ ks_pqs' = IF dist_type = "AD" THEN Filled(Runs, Scale) ELSE <<>>
            /\ UNCHANGED result
    /\ UNCHANGED <<dist_type, calc_p, pqcrit, pcrit_arg, i, oracle,
                   possible_ps, refined, ks_result, stream, wtot, wleft>>

\* Lines 199-214, a draw the while condition rejects: both indices are
\* drawn again, nothing of the rejected draw is kept.
Redraw ==
    /\ pc = "sweep"
    /\ (\E xmin_idx \in NearestIdx(data), xmax_idx \in NearestIdx(data) :
          KeepsDrawing(data, xmin_idx, xmax_idx)) = TRUE
    /\ UNCHANGED vars

\* Lines 199-235, a draw that leaves the while loop: trim, fit, record.
Trial ==
    /\ pc = "sweep"
    /\ \E xmin_idx \in NearestIdx(data), xmax_idx \in NearestIdx(data) :
          /\ ~KeepsDrawing(data, xmin_idx, xmax_idx)
          /\ \E o \in Answers(<<xmin_idx, xmax_idx>>) :
                LET k == i + 1
                    n == xmax_idx - xmin_idx + 1
                    disp == Dispatch(dist_type)
                    w == <<xmin_idx, xmax_idx>>
                IN  /\ oracle' = [v \in DOMAIN oracle \cup {w} |->
                                     IF v = w THEN o ELSE oracle[v]]
                    /\ attempted_ds' = [attempted_ds EXCEPT ![k] =
                           RecordedD(o.alpha, o.dist[disp.distfun], attempted_ds[k])]
                    /\ attempted_pqs' = [attempted_pqs EXCEPT ![k] =
                           ApproxP(ScaledTmpd(o.alpha, o.dist[disp.dfun], n), n)]
                    /\ attempted_ns' = [attempted_ns EXCEPT ![k] = n]
                    /\ attempted_alphas' = [attempted_alphas EXCEPT ![k] = o.alpha]
                    /\ attempted_xmins' = [attempted_xmins EXCEPT ![k] = data[xmin_idx]]
                    /\ attempted_xmaxs' = [attempted_xmaxs EXCEPT ![k] = data[xmax_idx]]
                    /\ ks_pqs' = IF dist_type = "AD"
                                 THEN [ks_pqs EXCEPT ![k] =
                                          ApproxP(ScaledTmpd(o.alpha,
                                              o.dist[Dispatch("KS").dfun], n), n)]
                                 ELSE ks_pqs
    /\ i' = i + 1
    /\ pc' = IF i + 1 = Runs THEN "filter" ELSE "sweep"
    /\ UNCHANGED <<data, dist_type, calc_p, pqcrit, pcrit_arg, pcrit,
                   possible_ps, refined, result, ks_result, stream, wtot, wleft>>

\* The functions whose true p one call may ask for, and the trials it may
\* ask it for.
PFuns == {Dispatch(dist_type).dfun}
            \cup (IF dist_type = "AD" THEN {Dispatch("KS").dfun} ELSE {})

Asked(f) ==
    IF calc_p = FALSE THEN {}
    ELSE (IF Dispatch(dist_type).dfun = f
          THEN {k \in 1..Runs : attempted_pqs[k] > pqcrit} ELSE {})
         \cup (IF dist_type = "AD" /\ Dispatch("KS").dfun = f
               THEN {k \in 1..Runs : ks_pqs[k] > pqcrit} ELSE {})

\* Lines 238-295: filter, refine, filter, select, return.
Finish ==
    /\ pc = "filter"
    /\ \E T \in [PFuns -> [1..Runs -> 0..PRuns]] :
          /\ \A f \in PFuns : \A k \in 1..Runs : k \notin Asked(f) => T[f][k] = 0
          /\ LET out == Select(attempted_xmins, attempted_xmaxs, attempted_alphas,
                               attempted_pqs, pqcrit, pcrit, calc_p,
                               T[Dispatch(dist_type).dfun], PRuns)
                 ks == Select(attempted_xmins, attempted_xmaxs, attempted_alphas,
                              ks_pqs, pqcrit, pcrit, calc_p,
                              T[Dispatch("KS").dfun], PRuns)
             IN  /\ pc' = out.ret
                 /\ result' = out.result
                 /\ possible_ps' = out.ps
                 /\ refined' = out.called
                 /\ ks_result' = IF dist_type = "AD" THEN ks.result ELSE <<>>
    /\ UNCHANGED <<data, dist_type, calc_p, pqcrit, pcrit_arg, pcrit, i,
                   attempted_xmins, attempted_xmaxs, attempted_alphas,
                   attempted_ns, attempted_pqs, attempted_ds, oracle, ks_pqs,
                   stream, wtot, wleft>>

Next == Validate \/ Redraw \/ Trial \/ Finish

Spec == Init /\ [][Next]_vars

\* The function runs on; a random draw that can leave the while loop does
\* so eventually.
FairSpec == Spec /\ WF_vars(Validate) /\ WF_vars(Trial) /\ WF_vars(Finish)

(* ---------------- the refinement, one synthetic sample at a time -------- *)

\* Values the distance of a synthetic sample may take (0.1, 0.3).
SynthVals == {100, 300}

\* Lines 78-79: find_nearest_idx(data, v) for a value v of the data.
IdxOf(v) == CHOOSE a \in 1..Len(data) : data[a] = v

\* Line 57: de, the distance of the fit of candidate j (the j-th trial with
\* approx_p > pqcrit), as the collaborators returned it in the sweep.
ObservedD(j) ==
    LET k == WhereAbove(attempted_pqs, pqcrit)[j]
    IN  oracle[<<IdxOf(attempted_xmins[k]), IdxOf(attempted_xmaxs[k])>>]
            .dist[Dispatch(dist_type).dfun]

\* possible arrays hold candidate j at place j; tots as Select reads them,
\* by trial.
ByTrial(tots_by_candidate) ==
    LET idxs == WhereAbove(attempted_pqs, pqcrit)
    IN  [k \in 1..Runs |->
            IF \E j \in 1..Len(idxs) : idxs[j] = k
            THEN tots_by_candidate[CHOOSE j \in 1..Len(idxs) : idxs[j] = k]
            ELSE 0]

\* pl_gen draws from the one generator of the process: the sample a worker
\* gets is the next of the seeded stream, whoever asks.
NextSample(ds) == stream' = Append(stream, ds)

\* Lines 238-261: filter; return at once with no candidate, else hand the
\* candidates to the prange of find_p_core.
StartRefine ==
    /\ pc = "filter"
    /\ LET idxs == WhereAbove(attempted_pqs, pqcrit)
           out == Select(attempted_xmins, attempted_xmaxs, attempted_alphas,
                         attempted_pqs, pqcrit, pcrit, calc_p,
                         Filled(Runs, 0), PRuns)
       IN  IF Len(idxs) = 0 \/ calc_p = FALSE
           THEN /\ pc' = out.ret
                /\ result' = out.result
                /\ possible_ps' = out.ps
                /\ UNCHANGED <<wtot, wleft>>
           ELSE /\ pc' = "refine"
                /\ wtot' = Filled(Len(idxs), 0)
                /\ wleft' = Filled(Len(idxs), PRuns)
                /\ UNCHANGED <<result, possible_ps>>
    /\ UNCHANGED <<data, dist_type, calc_p, pqcrit, pcrit_arg, pcrit, i,
                   attempted_xmins, attempted_xmaxs, attempted_alphas,
                   attempted_ns, attempted_pqs, attempted_ds, oracle,
                   refined, ks_pqs, ks_result, stream>>

\* Lines 58-63, inside the prange of line 75: the worker of one candidate
\* runs one iteration of find_true_p's loop, in any order among the workers.
WorkerRun ==
    /\ pc = "refine"
    /\ \E j \in 1..Len(wleft) :
          /\ wleft[j] > 0
          /\ \E ds \in SynthVals :
                /\ NextSample(ds)
                /\ wtot' = [wtot EXCEPT ![j] =
                               IF ds >= ObservedD(j) THEN @ + 1 ELSE @]
                /\ wleft' = [wleft EXCEPT ![j] = @ - 1]
    /\ UNCHANGED <<data, dist_type, calc_p, pqcrit, pcrit_arg, pcrit, pc, i,
                   attempted_xmins, attempted_xmaxs, attempted_alphas,
                   attempted_ns, attempted_pqs, attempted_ds, oracle,
                   possible_ps, refined, result, ks_pqs, ks_result>>

\* Lines 66-69, 83 and 265-295: every worker is done; filter, select, return.
EndRefine ==
    /\ pc = "refine"
    /\ \A j \in 1..Len(wleft) : wleft[j] = 0
    /\ LET out == Select(attempted_xmins, attempted_xmaxs, attempted_alphas,
                         attempted_pqs, pqcrit, pcrit, calc_p,
                         ByTrial(wtot), PRuns)
       IN  /\ pc' = out.ret
           /\ result' = out.result
           /\ possible_ps' = out.ps
           /\ refined' = out.called
    /\ UNCHANGED <<data, dist_type, calc_p, pqcrit, pcrit_arg, pcrit, i,
                   attempted_xmins, attempted_xmaxs, attempted_alphas,
                   attempted_ns, attempted_pqs, attempted_ds, oracle,
                   ks_pqs, ks_result, stream, wtot, wleft>>

ParInit == Init /\ dist_type = "KS" /\ calc_p = TRUE /\ data = DataTie

ParNext == Validate \/ Redraw \/ Trial \/ StartRefine \/ WorkerRun \/ EndRefine

\* One call with calc_p, the refinement run sample by sample.
ParSpec == ParInit /\ [][ParNext]_vars

(* ------------------------------ claims --------------------------------- *)

\* The function has returned from one of its three result paths.
Returned == pc \in {"ret_empty_approx", "ret_empty_true", "ret_select"}

\* The batch is allocated.
Allocated == pc \notin {"start", "ret_defaults"}

\* What the k-th trial of the batch would return.
TrialOf(k) == <<attempted_xmins[k], attempted_xmaxs[k], attempted_alphas[k]>>

\* The trials that pass the approximate filter.
ApproxSurvivors == {k \in 1..Runs : attempted_pqs[k] > pqcrit}

\* The true p of approx-survivor k: possible_ps holds the survivors in
\* trial order.
TruePOf(k) == possible_ps[Cardinality({j \in ApproxSurvivors : j <= k})]

\* The approx-survivors whose true p is above crit.
TrueSurvivors(crit) ==
    IF Len(possible_ps) = Cardinality(ApproxSurvivors)
    THEN {k \in ApproxSurvivors : TruePOf(k) > crit}
    ELSE {}

\* xmax/xmin of trial k against that of trial j.
RatioLess(j, k) ==
    attempted_xmaxs[j] * attempted_xmins[k] < attempted_xmaxs[k] * attempted_xmins[j]

\* The trial of S with the widest xmax/xmin, the lowest index on ties.
Widest(S) ==
    CHOOSE k \in S : /\ \A j \in S : ~RatioLess(k, j)
                     /\ \A j \in S : j < k => RatioLess(j, k)

C2_SelectWidestTrueSurvivor ==
    (calc_p = TRUE /\ Returned /\ TrueSurvivors(pcrit_arg) # {}) =>
        /\ pc = "ret_select"
        /\ result = TrialOf(Widest(TrueSurvivors(pcrit_arg)))

\* C2 witness: two different windows tie at the widest ratio, both pass
\* both filters.
C2_Witness ==
    /\ pc = "ret_select" /\ calc_p = TRUE
    /\ TrueSurvivors(pcrit_arg) = {1, 2}
    /\ attempted_xmins[1] # attempted_xmins[2]
    /\ ~RatioLess(1, 2) /\ ~RatioLess(2, 1)

\* C3: when no trial has approx_p > pqcrit the function returns the trial
\* with the largest approx_p of the whole batch, the lowest index on ties,
\* and the true-p estimator is not called.
C3_EmptyApproxFallback ==
    (Returned /\ ApproxSurvivors = {}) =>
        /\ pc = "ret_empty_approx"
        /\ refined = FALSE /\ possible_ps = <<>>
        /\ \E k \in 1..Runs :
              /\ \A j \in 1..Runs : attempted_pqs[j] <= attempted_pqs[k]
              /\ \A j \in 1..k - 1 : attempted_pqs[j] < attempted_pqs[k]
              /\ result = TrialOf(k)

\* C3 witness: no survivor, and two different trials tie at the largest
\* approx_p.
C3_Witness ==
    /\ pc = "ret_empty_approx"
    /\ attempted_pqs[1] = attempted_pqs[2]
    /\ \A j \in 1..Runs : attempted_pqs[j] <= attempted_pqs[1]
    /\ TrialOf(1) # TrialOf(2)

\* C5: without calc_p, when some trial has approx_p > pqcrit the function
\* returns the widest trial among all trials with approx_p > pqcrit,
\* whatever pcrit the caller passed, and the true-p estimator is not called.
C5_NoCalcPUsesPqcrit ==
    (calc_p = FALSE /\ Returned /\ ApproxSurvivors # {}) =>
        /\ pc = "ret_select"
        /\ refined = FALSE
        /\ result = TrialOf(Widest(ApproxSurvivors))

\* C5 witness: the returned trial has pqcrit < approx_p <= the caller's pcrit.
C5_Witness ==
    /\ pc = "ret_select" /\ calc_p = FALSE
    /\ \E k \in ApproxSurvivors :
          /\ attempted_pqs[k] <= pcrit_arg
          /\ result = TrialOf(k)

\* C6: the function returns the sentinel (0, 0, 1), with no trial drawn,
\* exactly when dist_type is none of 'KS', 'AD', 'discrete' or dist_type is
\* 'discrete' and some datum is < 1.
C6_ValidationSentinel ==
    LET invalid == \/ dist_type \notin {"KS", "AD", "discrete"}
                   \/ /\ dist_type = "discrete"
                      /\ \E k \in 1..Len(data) : data[k] < Unit
    IN  /\ pc # "start" => (pc = "ret_defaults" <=> invalid)
        /\ pc = "ret_defaults" =>
              /\ result = <<0, 0, Scale>>
              /\ i = 0 /\ attempted_xmins = <<>> /\ DOMAIN oracle = {}
        /\ Allocated => result # <<0, 0, Scale>>

\* C6 witness: the discrete guard returned the sentinel.
C6_Witness == pc = "ret_defaults" /\ dist_type = "discrete"

C9_NeverReturnsAlphaLeOne ==
    Returned => \A k \in 1..Runs : attempted_alphas[k] <= Scale => result # TrialOf(k)

\* C9 amended: a trial with alpha <= 1 keeps its alpha, the distance
\* sentinel and the approx_p of tmpd = 1; SELECT and EMPTY_TRUE never
\* return it (EMPTY_APPROX may).
C9_AlphaLeOneOnlyByEmptyApprox ==
    /\ Allocated =>
          \A k \in 1..i : attempted_alphas[k] <= Scale =>
              /\ attempted_ds[k] = DsSentinel
              /\ attempted_pqs[k] =
                    ApproxP(SqrtOfInt(attempted_ns[k]), attempted_ns[k])
              /\ attempted_pqs[k] <= pqcrit
    /\ pc \in {"ret_select", "ret_empty_true"} =>
          \A k \in 1..Runs : attempted_alphas[k] <= Scale => result # TrialOf(k)

\* C9 witness: SELECT returned with a trial of alpha <= 1 in the batch.
C9_Witness ==
    /\ pc = "ret_select"
    /\ \E k \in 1..Runs : attempted_alphas[k] <= Scale

C4_SomeDrawLeavesLoop ==
    (pc = "sweep" /\ Len(data) >= 10
        /\ data[Len(data)] >= 2 * data[1]) => ENABLED Trial

\* C4 as stated, under fair draws: the sweep of runs trials reaches its end.
SweepEnds == <>(pc \notin {"start", "sweep"})

\* Under fair draws the sweep does end from 11 points on.
SweepEndsFromElevenPoints == (Len(data) >= 11) ~> (pc \notin {"start", "sweep"})

\* The tot of candidate j when the workers take the samples of the stream
\* one candidate after the other.
TotInOrder(j) ==
    Cardinality({m \in 1..PRuns : stream[(j - 1) * PRuns + m] >= ObservedD(j)})

\* C7 as stated: with the same seeded stream, data and parameters the call
\* returns the same (xmin, xmax, alpha) however the workers of the prange
\* interleave: what it returns is what it returns when the workers run one
\* after the other.
C7_SameStreamSameResult ==
    (Returned /\ refined = TRUE) =>
        result = Select(attempted_xmins, attempted_xmaxs, attempted_alphas,
                        attempted_pqs, pqcrit, pcrit, calc_p,
                        ByTrial([j \in 1..Len(wtot) |-> TotInOrder(j)]),
                        PRuns).result

====
